---- MODULE Spec2Model ----
(***************************************************************************)
(* ape-cairo: the Cairo compiler plugin (src/ape_cairo/compiler.py).       *)
(*                                                                         *)
(* Text is modelled as a sequence of tokens.  Every literal the code       *)
(* searches for, splits on or strips is a token of its own, and no other   *)
(* token contains it, so `in`, str.split, str.replace and str.strip act on *)
(* tokens exactly as Python acts on the characters.                        *)
(***************************************************************************)
EXTENDS Naturals, Sequences, FiniteSets

VARIABLES
    entry,              \* the call under check: "_compile", "starknet_compile",
                        \* "load_dependencies" or "compile"
    pc,                 \* position of the running call
    res,                \* what the innermost finished call returned or raised
    log,                \* child processes spawned and directories removed, in order
    err_text,           \* _compile: what the child process wrote to stderr
    \* toolchain
    manifest,           \* config.manifest (a path, or <<>> for None)
    target_is_dir,      \* <manifest parent>/target is a directory
    bins_on_path,       \* the binaries shutil.which finds
    frame,              \* starknet_compile: in_path, out_path, arguments
    \* dependency packages and the project's cache
    dependencies,       \* config.dependencies
    packages,           \* packages_folder / dependency_name
    sources,            \* the sources of the dependency's manifests
    known_deps,         \* names of config_manager.dependencies
    cache_dirs,         \* versions v with base_path/.cache/<name>/v a directory
    cache_files,        \* the files below them
    dep_idx,            \* load_dependencies: the item the loop is at
    run,                \* load_dependencies: 1 in the first run, 2 in the second
    \* compile
    contract_filepaths, \* the candidate files
    source_text,        \* their text
    paths,              \* the candidates that hold a contract
    idx,                \* the contract the loop is at
    contract_types,     \* the artifacts assembled so far
    out_dirs,           \* the output directories that exist
    files,              \* the compiler output files
    \* history
    fs0                 \* the filesystem the call under check started on

toolVars == <<manifest, target_is_dir, bins_on_path, frame>>
depVars == <<dependencies, packages, sources, known_deps, cache_dirs, cache_files,
             dep_idx, run>>
compileVars == <<contract_filepaths, source_text, paths, idx, contract_types,
                 out_dirs, files>>
vars == <<entry, pc, res, log, err_text, toolVars, depVars, compileVars, fs0>>

\* ------------------------------------------------------------------ text

ErrorMarker == "Error: "
CompilationFailed == "Compilation failed."
PermissionDenied == "Permission denied (os error 13)"
ContractNotFound == "Contract not found."
Space == " "
Word == "warning"
Other == "note"

StderrTokens ==
    {ErrorMarker, CompilationFailed, PermissionDenied, ContractNotFound, Space, Word,
     Other}

Whitespace == {Space}

SeqsUpTo(S, n) == UNION {[1..k -> S] : k \in 0..n}

\* Optional[str]
Nothing == [some |-> FALSE, v |-> <<>>]
Some(v) == [some |-> TRUE, v |-> v]

\* Python's `p in s`
Contains(s, p) ==
    \E i \in 1..(Len(s) + 1) :
        /\ i + Len(p) - 1 <= Len(s)
        /\ SubSeq(s, i, i + Len(p) - 1) = p

\* Python's s.split(sep), sep one token
RECURSIVE Split(_, _)
Split(s, sep) ==
    IF \A i \in 1..Len(s) : s[i] # sep
    THEN <<s>>
    ELSE LET i == CHOOSE k \in 1..Len(s) :
                      s[k] = sep /\ \A j \in 1..(k - 1) : s[j] # sep
         IN  <<SubSeq(s, 1, i - 1)>> \o Split(SubSeq(s, i + 1, Len(s)), sep)

\* Python's s.strip()
RECURSIVE Strip(_)
Strip(s) ==
    IF s = <<>> THEN s
    ELSE IF Head(s) \in Whitespace THEN Strip(Tail(s))
    ELSE IF s[Len(s)] \in Whitespace THEN Strip(SubSeq(s, 1, Len(s) - 1))
    ELSE s

\* ------------------------------------------------------- Process Invoker

None == [kind |-> "none", msg |-> <<>>, out |-> <<>>, err |-> <<>>]

Return(out, err) == [kind |-> "return", msg |-> <<>>, out |-> out, err |-> err]
Raise(exc, msg) == [kind |-> exc, msg |-> msg, out |-> <<>>, err |-> <<>>]

CompilerBrokenError ==
    Raise("CompilerBrokenError", <<"Failed to compile. Cairo compiler corrupted.">>)

\* as GenericMessage, with the last piece of the split: [-1] for [1]
GenericMessageLastPiece(err) ==
    Strip(Split(err, ErrorMarker)[Len(Split(err, ErrorMarker))])

\* err_text.split("Error: ")[1].strip()
GenericMessage(err) == Strip(Split(err, ErrorMarker)[2])

\* as _compile, with the tests for "Contract not found." and "Permission denied"
\* in the other order
CompileNotFoundFirst(out, err) ==
    IF err # <<>>
    THEN IF Contains(err, <<ErrorMarker, CompilationFailed>>)
         THEN Raise("CompilerError",
                    <<"Failed to compile contract. Full output:\n">> \o err \o <<".">>)
         ELSE IF Contains(err, <<ErrorMarker, ContractNotFound>>)
         THEN Raise("ContractNotFoundError", <<>>)
         ELSE IF Contains(err, <<PermissionDenied>>)
         THEN CompilerBrokenError
         ELSE IF Contains(err, <<ErrorMarker>>)
         THEN Raise("CompilerError", GenericMessage(err))
         ELSE Return(out, err)
    ELSE Return(out, err)

\* _compile on a child process that wrote `out` to stdout and `err` to stderr
_compile(out, err) ==
    IF err # <<>>
    THEN IF Contains(err, <<ErrorMarker, CompilationFailed>>)
         THEN Raise("CompilerError",
                    <<"Failed to compile contract. Full output:\n">> \o err \o <<".">>)
         ELSE IF Contains(err, <<PermissionDenied>>)
         THEN CompilerBrokenError
         ELSE IF Contains(err, <<ErrorMarker, ContractNotFound>>)
         THEN Raise("ContractNotFoundError", <<>>)
         ELSE IF Contains(err, <<ErrorMarker>>)
         THEN Raise("CompilerError", GenericMessage(err))
         ELSE Return(out, err)
    ELSE Return(out, err)

\* A child process in the log: its arguments, the contract compile was at, and how
\* _compile on it ended (r).
Spawn(arguments, r) ==
    [op |-> "spawn", args |-> arguments, contract |-> idx, ended |-> r.kind]

\* ---------------------------------------------------------------- paths

Sep == "/"
Dot == "."
CairoExt == ".cairo"

\* Python's s.replace(old, new), old one token and new a token sequence
RECURSIVE Replace(_, _, _)
Replace(s, old, new) ==
    IF s = <<>> THEN <<>>
    ELSE (IF Head(s) = old THEN new ELSE <<Head(s)>>) \o Replace(Tail(s), old, new)

Range(s) == {s[i] : i \in 1..Len(s)}

\* --------------------------------------------------- Dependency Resolver

At == "@"
DepName == "dep"
Digits == {"1"}

\* str.isnumeric of one character
IsNumeric(ch) == ch \in Digits

\* The version directories a package folder may hold.
DirNames == {<<"1">>, <<"v", "1">>, <<"a">>}

\* f"v{version}" when version[0].isnumeric()
PrefixV(version) ==
    IF version # <<>> /\ IsNumeric(version[1]) THEN <<"v">> \o version ELSE version

Versions == {PrefixV(d) : d \in DirNames}


\* "name" or "name@version"
ParseItem(item) ==
    IF ~Contains(item, <<At>>)
    THEN [ok |-> TRUE, name |-> item, version |-> Nothing]
    ELSE LET parts == Split(item, At)
         IN  IF Len(parts) = 2
             THEN [ok |-> TRUE, name |-> parts[1], version |-> Some(parts[2])]
             ELSE [ok |-> FALSE, name |-> <<>>, version |-> Nothing]

NoContent == [has |-> FALSE, text |-> <<>>]
Content(t) == [has |-> TRUE, text |-> t]
Truthy(c) == c.has /\ c.text # <<>>

NoFile == [exists |-> FALSE, text |-> <<>>]
File(t) == [exists |-> TRUE, text |-> t]

\* Path(f"{source_id.replace('.cairo', '').replace('.', '/')}.cairo")
Suffix(source_id) ==
    Replace(Replace(source_id, CairoExt, <<>>), Dot, <<Sep>>) \o <<CairoExt>>

SourceIds == {<<"a", Dot, "b", CairoExt>>, <<"a", Sep, "b", CairoExt>>, <<"c">>}
DestPaths == {Suffix(id) : id \in SourceIds}

\* as WriteSources, without `if destination_path.is_file(): continue`
RECURSIVE WriteSourcesOverwriting(_, _, _, _)
WriteSourcesOverwriting(srcs, k, version, fs) ==
    IF k > Len(srcs) THEN fs
    ELSE LET destination_path == <<version, Suffix(srcs[k].id)>>
             next ==
                 IF Truthy(srcs[k].content)
                 THEN [dirs |-> fs.dirs \cup {version},
                       files |-> [fs.files EXCEPT
                                    ![destination_path] = File(srcs[k].content.text)]]
                 ELSE fs
         IN  WriteSourcesOverwriting(srcs, k + 1, version, next)

\* The loop over the manifest's sources, from entry k on.
RECURSIVE WriteSources(_, _, _, _)
WriteSources(srcs, k, version, fs) ==
    IF k > Len(srcs) THEN fs
    ELSE LET destination_path == <<version, Suffix(srcs[k].id)>>
             next ==
                 IF fs.files[destination_path].exists
                 THEN fs
                 ELSE IF Truthy(srcs[k].content)
                 THEN [dirs |-> fs.dirs \cup {version},
                       files |-> [fs.files EXCEPT
                                    ![destination_path] = File(srcs[k].content.text)]]
                 ELSE fs
         IN  WriteSources(srcs, k + 1, version, next)

Continue(fs) == [raise |-> None, fs |-> fs]
Abort(exc, fs) == [raise |-> exc, fs |-> fs]

\* dependency_package_folder.is_dir()
PackageIsDir(name) == name = <<DepName>> /\ packages.is_dir

\* as ResolveVersion, without `elif len(version_options) != 1`
ResolveVersionAnyOption(parsed) ==
    IF ~parsed.version.some /\ PackageIsDir(parsed.name)
    THEN IF packages.versions = {}
         THEN [raise |-> Raise("ConfigError", <<"No versions found for dependency">>),
               version |-> Nothing]
         ELSE [raise |-> None,
               version |-> Some(CHOOSE d \in packages.versions : TRUE)]
    ELSE [raise |-> None, version |-> parsed.version]

\* The version a dependency item resolves to, before the "v" prefix.
ResolveVersion(parsed) ==
    IF ~parsed.version.some /\ PackageIsDir(parsed.name)
    THEN IF packages.versions = {}
         THEN [raise |-> Raise("ConfigError", <<"No versions found for dependency">>),
               version |-> Nothing]
         ELSE IF Cardinality(packages.versions) # 1
         THEN [raise |-> Raise("ConfigError", <<"Ambiguous dependency version">>),
               version |-> Nothing]
         ELSE [raise |-> None,
               version |-> Some(CHOOSE d \in packages.versions : TRUE)]
    ELSE [raise |-> None, version |-> parsed.version]

\* One iteration of the loop over config.dependencies.
LoadDependency(item, fs) ==
    LET parsed == ParseItem(item)
        resolved == ResolveVersion(parsed)
        version == PrefixV(resolved.version.v)
        manifest_is_file == PackageIsDir(parsed.name) /\ version \in packages.manifests
    IN  IF ~parsed.ok THEN Abort(Raise("ValueError", <<>>), fs)
        ELSE IF resolved.raise # None THEN Abort(resolved.raise, fs)
        ELSE IF ~PackageIsDir(parsed.name)
        THEN Abort(Raise("CompilerError", <<"Missing dependency">>), fs)
        ELSE IF version \in fs.dirs /\ ~manifest_is_file THEN Continue(fs)
        ELSE IF ~manifest_is_file
        THEN Abort(Raise("CompilerError", <<"Dependency missing">>), fs)
        ELSE IF DepName \notin known_deps
        THEN Abort(Raise("ConfigError", <<"not configured">>), fs)
        ELSE Continue(WriteSources(sources, 1, version, fs))

\* _compile called on its own, on a child process that wrote err_text to stderr
compile_process ==
    /\ entry = "_compile"
    /\ pc = "_compile"
    /\ \E out \in {<<>>, <<"out">>} :
        /\ res' = _compile(out, err_text)
        /\ log' = Append(log, Spawn(<<>>, _compile(out, err_text)))
    /\ pc' = "done"
    /\ UNCHANGED <<entry, err_text, toolVars, depVars, compileVars, fs0>>

\* ----------------------------------------------- stage A: starknet_compile

STARKNET_COMPILE == "starknet-compile"
STARKNET_SIERRA_COMPILE == "starknet-sierra-compile"

Absent == [exists |-> FALSE, by |-> 0]
\* A file the n-th entry of the log wrote; 0: a file an earlier run left.
Written(n) == [exists |-> TRUE, by |-> n]

\* The child process: what it may print and whether it writes its output file.
ProcStdouts == {<<>>, <<"out">>}
ProcStderrs ==
    { <<>>, <<Word>>,
      <<ErrorMarker, CompilationFailed>>,
      <<PermissionDenied>>,
      <<ErrorMarker, ContractNotFound, Space>>,
      <<ErrorMarker, Word>>,
      <<PermissionDenied, ErrorMarker, ContractNotFound>> }

_which(bin_name) ==
    IF manifest # <<>>
    THEN [raise |-> None,
          bin |-> <<<<"cargo">>, <<"run">>, <<"--bin">>, <<bin_name>>,
                    <<"--manifest-path">>, manifest>>]
    ELSE IF bin_name \in bins_on_path
    THEN [raise |-> None, bin |-> <<<<bin_name>>>>]
    ELSE [raise |-> Raise("CompilerError",
                          <<STARKNET_COMPILE,
                            " binary required in $PATH prior to compiling.">>),
          bin |-> <<>>]

\* A stage's parameters and the argument list it built.
Frame(in_path, out_path, replace_ids, allow_libfuncs_list_name, arguments) ==
    [in_path |-> in_path, out_path |-> out_path, replace_ids |-> replace_ids,
     allow_libfuncs_list_name |-> allow_libfuncs_list_name, arguments |-> arguments]

\* starknet_compile up to its first child process
StarknetCompileBegin(in_path, out_path, replace_ids, allow_libfuncs_list_name) ==
    LET w == _which(STARKNET_COMPILE)
        arguments ==
            w.bin \o <<in_path, out_path>>
            \o (IF replace_ids THEN <<<<"--replace-ids">>>> ELSE <<>>)
            \o (IF allow_libfuncs_list_name.some
                THEN <<<<"--allowed-libfuncs-list-name">>, allow_libfuncs_list_name.v>>
                ELSE <<>>)
    IN  [raise |-> w.raise,
         frame |-> Frame(in_path, out_path, replace_ids, allow_libfuncs_list_name,
                         arguments)]

\* as StarknetCompileHandle, without `if target_path.is_dir()`
StarknetCompileHandleNoDirTest(r) ==
    IF r.kind = "return" THEN [next |-> "return", res |-> r]
    ELSE IF r.kind = "ContractNotFoundError"
    THEN [next |-> "raise",
          res |-> Raise("ContractNotFoundError",
                        <<"Contract '">> \o frame.in_path \o <<"' not found.">>)]
    ELSE IF r.kind = "CompilerBrokenError"
    THEN IF manifest # <<>>
         THEN [next |-> "retry", res |-> None]
         ELSE [next |-> "raise", res |-> r]
    ELSE [next |-> "raise", res |-> r]

\* starknet_compile's try/except around the first _compile, which ended as r
StarknetCompileHandle(r) ==
    IF r.kind = "return" THEN [next |-> "return", res |-> r]
    ELSE IF r.kind = "ContractNotFoundError"
    THEN [next |-> "raise",
          res |-> Raise("ContractNotFoundError",
                        <<"Contract '">> \o frame.in_path \o <<"' not found.">>)]
    ELSE IF r.kind = "CompilerBrokenError"
    THEN IF manifest # <<>> /\ target_is_dir
         THEN [next |-> "retry", res |-> None]
         ELSE [next |-> "raise", res |-> r]
    ELSE [next |-> "raise", res |-> r]

\* the second _compile, inside the except clause: whatever it does leaves the call
StarknetCompileRetried(r) ==
    IF r.kind = "return" THEN [next |-> "return", res |-> r]
    ELSE [next |-> "raise", res |-> r]

\* Where a stage that returned hands control to.
Returned(to) == IF entry = "compile" THEN to ELSE "done"

\* shutil.rmtree(target_path, ignore_errors=True) in the log
Rmtree == [op |-> "rmtree", args |-> <<<<"target">>>>, contract |-> idx, ended |-> "return"]

\* starknet_compile called on its own
starknet_compile ==
    /\ entry = "starknet_compile"
    /\ pc = "starknet_compile"
    /\ LET b == StarknetCompileBegin(frame.in_path, frame.out_path, frame.replace_ids,
                                     frame.allow_libfuncs_list_name)
       IN  IF b.raise # None
           THEN /\ res' = b.raise
                /\ pc' = "done"
                /\ frame' = frame
           ELSE /\ res' = res
                /\ pc' = "attempt"
                /\ frame' = b.frame
    /\ UNCHANGED <<entry, log, err_text, manifest, target_is_dir, bins_on_path>>
    /\ UNCHANGED <<depVars, compileVars, fs0>>

\* the child process of the first _compile(*arguments), and the except clauses
starknet_compile_attempt ==
    /\ pc = "attempt"
    /\ \E out \in ProcStdouts, err \in ProcStderrs, wrote \in BOOLEAN :
        LET spawned == Append(log, Spawn(frame.arguments, _compile(out, err)))
            h == StarknetCompileHandle(_compile(out, err))
        IN  /\ files' = IF wrote
                        THEN [files EXCEPT ![frame.out_path] = Written(Len(spawned))]
                        ELSE files
            /\ IF h.next = "retry"
               THEN /\ target_is_dir' = FALSE
                    /\ log' = Append(spawned, Rmtree)
                    /\ pc' = "retry"
               ELSE /\ target_is_dir' = target_is_dir
                    /\ log' = spawned
                    /\ pc' = IF h.next = "return" THEN Returned("check_ir") ELSE "done"
            /\ res' = h.res
    /\ UNCHANGED <<entry, err_text, manifest, bins_on_path, frame, depVars, fs0>>
    /\ UNCHANGED <<contract_filepaths, source_text, paths, idx, contract_types, out_dirs>>

\* the child process of the second _compile(*arguments)
starknet_compile_retry ==
    /\ pc = "retry"
    /\ \E out \in ProcStdouts, err \in ProcStderrs, wrote \in BOOLEAN :
        LET spawned == Append(log, Spawn(frame.arguments, _compile(out, err)))
            h == StarknetCompileRetried(_compile(out, err))
        IN  /\ files' = IF wrote
                        THEN [files EXCEPT ![frame.out_path] = Written(Len(spawned))]
                        ELSE files
            /\ log' = spawned
            /\ pc' = IF h.next = "return" THEN Returned("check_ir") ELSE "done"
            /\ res' = h.res
    /\ UNCHANGED <<entry, err_text, toolVars, depVars, fs0>>
    /\ UNCHANGED <<contract_filepaths, source_text, paths, idx, contract_types, out_dirs>>

\* ---------------------------------------- stage B and compile, top level

NL == "\n"
ContractIds == {"#[contract]", "#[account_contract]"}

\* any(c in line for c in contract_ids) for some line of path.read_text().splitlines()
HasContract(text) ==
    LET lines == Split(text, NL)
    IN  \E k \in 1..Len(lines) : \E c \in ContractIds : Contains(lines[k], <<c>>)

\* The filter loop: the candidates that hold a contract, in order.
RECURSIVE FilterPaths(_)
FilterPaths(fps) ==
    IF fps = <<>> THEN <<>>
    ELSE (IF HasContract(source_text[Head(fps)]) THEN <<Head(fps)>> ELSE <<>>)
         \o FilterPaths(Tail(fps))

\* source_id.replace(os.path.sep, ".").replace(".cairo", "")
ContractName(source_id) == Replace(Replace(source_id, Sep, <<Dot>>), CairoExt, <<>>)

ProgramPath(contract_name) == <<"starknet", Sep>> \o contract_name \o <<".json">>
CasmPath(contract_name) == <<"starknet", Sep, "casm", Sep>> \o contract_name \o <<".casm">>

ExperimentalLibfuncs == Some(<<"experimental_v0.1.0">>)

\* as OutputDirs, with the two mkdir calls before `if not paths: return []`
OutputDirsBeforeTheTest(ps) == out_dirs \cup {"starknet", "casm"}

\* The directories that exist once compile is past `if not paths: return []`.
OutputDirs(ps) ==
    IF ps = <<>> THEN out_dirs ELSE out_dirs \cup {"starknet", "casm"}

\* The loop body up to stage A's first child process.
LoopHead(contract_path, fl) ==
    LET program_path == ProgramPath(ContractName(contract_path))
        b == StarknetCompileBegin(contract_path, program_path, TRUE, ExperimentalLibfuncs)
    IN  [raise |-> b.raise, frame |-> b.frame,
         files |-> [fl EXCEPT ![program_path] = Absent]]

\* starknet_sierra_compile up to its child process
SierraCompileBegin(in_path, out_path, allow_libfuncs_list_name) ==
    LET w == _which(STARKNET_SIERRA_COMPILE)
        arguments ==
            w.bin \o <<in_path, out_path, <<"--add-pythonic-hints">>>>
            \o (IF allow_libfuncs_list_name.some
                THEN <<<<"--allowed-libfuncs-list-name">>, allow_libfuncs_list_name.v>>
                ELSE <<>>)
    IN  [raise |-> w.raise,
         frame |-> Frame(in_path, out_path, FALSE, allow_libfuncs_list_name, arguments)]

\* as IrMissing, with the test left out
IrNeverMissing(program_path) == FALSE

\* `if not program_path.is_file()`
IrMissing(program_path) == ~files[program_path].exists

FailureMessage(contract_path, output, err) ==
    <<"Failed to compile '">> \o contract_path \o <<"'.">>
    \o (IF output # <<>> THEN <<"\nStdout: ">> \o output ELSE <<>>)
    \o (IF err # <<>> THEN <<"\nStderr: ">> \o err ELSE <<>>)

\* to_hex(text=...): the text a file holds, hex-encoded
ToHex(file) == [hex |-> file.by]

ContractType(contract_name, source_id, casm, program) ==
    [contractName |-> contract_name, sourceId |-> source_id,
     runtimeBytecode |-> ToHex(casm), deploymentBytecode |-> ToHex(program)]

\* compile returned; the list is contract_types
Returns == Return(<<>>, <<>>)

\* compile from the end of load_dependencies to the first child process
compile_filter ==
    /\ entry = "compile"
    /\ pc = "load_dependencies"
    /\ dep_idx > Len(dependencies)
    /\ LET ps == FilterPaths(contract_filepaths)
           h == LoopHead(ps[1], files)
       IN  /\ paths' = ps
           /\ out_dirs' = OutputDirs(ps)
           /\ IF ps = <<>>
              THEN /\ res' = Returns
                   /\ pc' = "done"
                   /\ UNCHANGED <<files, frame>>
              ELSE /\ files' = h.files
                   /\ frame' = h.frame
                   /\ IF h.raise # None
                      THEN res' = h.raise /\ pc' = "done"
                      ELSE res' = res /\ pc' = "attempt"
    /\ UNCHANGED <<entry, log, err_text, manifest, target_is_dir, bins_on_path>>
    /\ UNCHANGED <<depVars, contract_filepaths, source_text, idx, contract_types, fs0>>

\* compile from stage A's return to stage B's child process
compile_check_ir ==
    /\ pc = "check_ir"
    /\ LET contract_path == paths[idx]
           program_path == ProgramPath(ContractName(contract_path))
           casm_path == CasmPath(ContractName(contract_path))
           b == SierraCompileBegin(program_path, casm_path, ExperimentalLibfuncs)
       IN  IF IrMissing(program_path)
           THEN /\ res' = Raise("CompilerError",
                                FailureMessage(contract_path, res.out, res.err))
                /\ pc' = "done"
                /\ frame' = frame
           ELSE /\ frame' = b.frame
                /\ IF b.raise # None
                   THEN res' = b.raise /\ pc' = "done"
                   ELSE res' = None /\ pc' = "sierra"
    /\ UNCHANGED <<entry, log, err_text, manifest, target_is_dir, bins_on_path>>
    /\ UNCHANGED <<depVars, compileVars, fs0>>

\* the child process of starknet_sierra_compile's _compile(*arguments)
starknet_sierra_compile ==
    /\ pc = "sierra"
    /\ \E out \in ProcStdouts, err \in ProcStderrs, wrote \in BOOLEAN :
        LET r == _compile(out, err)
            spawned == Append(log, Spawn(frame.arguments, r))
        IN  /\ files' = IF wrote
                        THEN [files EXCEPT ![frame.out_path] = Written(Len(spawned))]
                        ELSE files
            /\ log' = spawned
            /\ pc' = IF r.kind = "return" THEN "assemble" ELSE "done"
            /\ res' = r
    /\ UNCHANGED <<entry, err_text, toolVars, depVars, fs0>>
    /\ UNCHANGED <<contract_filepaths, source_text, paths, idx, contract_types, out_dirs>>

\* compile from stage B's return to the next contract's first child process
compile_assemble ==
    /\ pc = "assemble"
    /\ LET contract_path == paths[idx]
           contract_name == ContractName(contract_path)
           program_path == ProgramPath(contract_name)
           casm_path == CasmPath(contract_name)
           h == LoopHead(paths[idx + 1], files)
       IN  IF ~files[program_path].exists \/ ~files[casm_path].exists
           THEN /\ res' = Raise("FileNotFoundError", <<>>)
                /\ pc' = "done"
                /\ UNCHANGED <<contract_types, idx, files, frame>>
           ELSE /\ contract_types' =
                      Append(contract_types,
                             ContractType(contract_name, contract_path,
                                          files[casm_path], files[program_path]))
                /\ idx' = idx + 1
                /\ IF idx = Len(paths)
                   THEN /\ res' = Returns
                        /\ pc' = "done"
                        /\ UNCHANGED <<files, frame>>
                   ELSE /\ files' = h.files
                        /\ frame' = h.frame
                        /\ IF h.raise # None
                           THEN res' = h.raise /\ pc' = "done"
                           ELSE res' = None /\ pc' = "attempt"
    /\ UNCHANGED <<entry, log, err_text, manifest, target_is_dir, bins_on_path>>
    /\ UNCHANGED <<depVars, contract_filepaths, source_text, paths, out_dirs, fs0>>

\* The filesystem as the history variable keeps it.
Filesystem ==
    [target_is_dir |-> target_is_dir, cache_dirs |-> cache_dirs,
     cache_files |-> cache_files, out_dirs |-> out_dirs, files |-> files]

\* load_dependencies: one iteration of its loop
load_dependencies ==
    /\ pc = "load_dependencies"
    /\ dep_idx <= Len(dependencies)
    /\ LET r == LoadDependency(dependencies[dep_idx],
                               [dirs |-> cache_dirs, files |-> cache_files])
       IN  /\ cache_dirs' = r.fs.dirs
           /\ cache_files' = r.fs.files
           /\ IF r.raise # None
              THEN res' = r.raise /\ pc' = "done" /\ dep_idx' = dep_idx
              ELSE res' = res /\ pc' = pc /\ dep_idx' = dep_idx + 1
    /\ UNCHANGED <<entry, log, err_text, toolVars, compileVars, fs0>>
    /\ UNCHANGED <<dependencies, packages, sources, known_deps, run>>

\* load_dependencies: the loop is over
load_dependencies_return ==
    /\ entry = "load_dependencies"
    /\ pc = "load_dependencies"
    /\ dep_idx > Len(dependencies)
    /\ res' = Return(<<>>, <<>>)
    /\ pc' = "done"
    /\ UNCHANGED <<entry, log, err_text, toolVars, depVars, compileVars, fs0>>

\* load_dependencies is called again on the filesystem the first run left
load_dependencies_again ==
    /\ entry = "load_dependencies"
    /\ pc = "done"
    /\ run = 1
    /\ run' = 2
    /\ dep_idx' = 1
    /\ res' = None
    /\ pc' = "load_dependencies"
    /\ fs0' = Filesystem
    /\ UNCHANGED <<entry, log, err_text, toolVars, compileVars>>
    /\ UNCHANGED <<dependencies, packages, sources, known_deps, cache_dirs, cache_files>>

\* ------------------------------------------------------------ the inputs

MaxDeps == 2

DepItems == {<<DepName>>} \cup {<<DepName, At>> \o v : v \in DirNames}

PackageStates ==
    {[is_dir |-> FALSE, versions |-> {}, manifests |-> {}]}
    \cup UNION {{[is_dir |-> TRUE, versions |-> vs, manifests |-> ms] :
                    ms \in SUBSET vs} : vs \in SUBSET DirNames}

Entry(id, content) == [id |-> id, content |-> content]

\* Two ids with one destination; entries with no content and with empty content;
\* two entries with content.
ManifestSameDestination ==
    <<Entry(<<"a", Dot, "b", CairoExt>>, Content(<<"X">>)),
      Entry(<<"a", Sep, "b", CairoExt>>, Content(<<"Y">>))>>
ManifestNoContent ==
    <<Entry(<<"c">>, NoContent), Entry(<<"a", Sep, "b", CairoExt>>, Content(<<>>))>>
ManifestPlain ==
    <<Entry(<<"c">>, Content(<<"X">>)),
      Entry(<<"a", Sep, "b", CairoExt>>, Content(<<"Y">>))>>

ManifestSamples == {ManifestSameDestination, ManifestNoContent, ManifestPlain}

CacheKeys == (DirNames \cup Versions) \X DestPaths

\* A cache whose directories `dirs` each hold the files `old` from an earlier run.
OldCache(dirs, old) ==
    [k \in CacheKeys |->
        IF k[1] \in dirs /\ k[2] \in old THEN File(<<"OLD">>) ELSE NoFile]

NoFrame == Frame(<<>>, <<>>, FALSE, Nothing, <<>>)

ToolIdle ==
    /\ manifest = <<>>
    /\ target_is_dir = FALSE
    /\ bins_on_path = {}
    /\ frame = NoFrame

DepsIdle ==
    /\ dependencies = <<>>
    /\ packages = [is_dir |-> FALSE, versions |-> {}, manifests |-> {}]
    /\ sources = <<>>
    /\ known_deps = {}
    /\ cache_dirs = {}
    /\ cache_files = OldCache({}, {})
    /\ dep_idx = 1
    /\ run = 1

CandidatePaths ==
    {<<"a", Sep, "b", CairoExt>>, <<"a", Dot, "b", CairoExt>>, <<"c", CairoExt>>}

ContractNames == {ContractName(p) : p \in CandidatePaths}
ProgramPaths == {ProgramPath(n) : n \in ContractNames}
CasmPaths == {CasmPath(n) : n \in ContractNames}
OutFiles == ProgramPaths \cup CasmPaths

\* Output files an earlier run left: its IR files, its bytecode files, both or none.
StaleFiles(stale) ==
    [f \in OutFiles |->
        IF (f \in ProgramPaths /\ "ir" \in stale) \/ (f \in CasmPaths /\ "casm" \in stale)
        THEN Written(0) ELSE Absent]

TextNone == <<"fn", NL, "fn">>
Texts ==
    {TextNone, <<"#[contract]", NL, "fn">>, <<"fn", NL, "fn", "#[account_contract]">>}

CompileIdle ==
    /\ contract_filepaths = <<>>
    /\ source_text = [p \in CandidatePaths |-> TextNone]
    /\ paths = <<>>
    /\ idx = 1
    /\ contract_types = <<>>
    /\ out_dirs = {}
    /\ files = StaleFiles({})

DepsInit ==
    /\ entry = "load_dependencies"
    /\ pc = "load_dependencies"
    /\ res = None
    /\ log = <<>>
    /\ err_text = <<>>
    /\ ToolIdle
    /\ CompileIdle
    /\ dependencies \in SeqsUpTo(DepItems, MaxDeps)
    /\ packages \in PackageStates
    /\ sources \in ManifestSamples
    /\ known_deps \in {{}, {DepName}}
    /\ cache_dirs \in SUBSET Versions
    /\ \E old \in {{}, DestPaths} : cache_files = OldCache(cache_dirs, old)
    /\ dep_idx = 1
    /\ run = 1
    /\ fs0 = Filesystem

DepsNext == load_dependencies \/ load_dependencies_return \/ load_dependencies_again

SpecDeps == DepsInit /\ [][DepsNext]_vars

MaxErrLen == 4

InvokerInit ==
    /\ entry = "_compile"
    /\ pc = "_compile"
    /\ res = None
    /\ log = <<>>
    /\ err_text \in SeqsUpTo(StderrTokens, MaxErrLen)
    /\ ToolIdle
    /\ DepsIdle
    /\ CompileIdle
    /\ fs0 = Filesystem

SpecInvoker == InvokerInit /\ [][compile_process]_vars

ManifestPath == <<"cairo", Sep, "Cargo.toml">>

\* The toolchain: built from a manifest (with or without a target directory), or
\* binaries on $PATH.
ToolEnvs ==
    { [manifest |-> ManifestPath, target_is_dir |-> t, bins_on_path |-> {}] :
        t \in BOOLEAN }
    \cup { [manifest |-> <<>>, target_is_dir |-> FALSE, bins_on_path |-> b] :
             b \in {{}, {STARKNET_COMPILE}, {STARKNET_COMPILE, STARKNET_SIERRA_COMPILE}} }

StageAInit ==
    /\ entry = "starknet_compile"
    /\ pc = "starknet_compile"
    /\ res = None
    /\ log = <<>>
    /\ err_text = <<>>
    /\ \E t \in ToolEnvs :
        /\ manifest = t.manifest
        /\ target_is_dir = t.target_is_dir
        /\ bins_on_path = t.bins_on_path
    /\ \E in_path \in CandidatePaths, replace_ids \in BOOLEAN,
          allow \in {Nothing, ExperimentalLibfuncs} :
        frame = Frame(in_path, ProgramPath(ContractName(in_path)), replace_ids, allow, <<>>)
    /\ DepsIdle
    /\ CompileIdle
    /\ fs0 = Filesystem

StageANext == starknet_compile \/ starknet_compile_attempt \/ starknet_compile_retry

SpecStageA == StageAInit /\ [][StageANext]_vars

MaxFiles == 2

\* The dependency set-ups compile is run on: one that resolves and is written to
\* the cache, one whose version is ambiguous.
CompileDepEnvs ==
    { [dependencies |-> <<<<DepName>>>>,
       packages |-> [is_dir |-> TRUE, versions |-> {<<"v", "1">>},
                     manifests |-> {<<"v", "1">>}]],
      [dependencies |-> <<<<DepName>>>>,
       packages |-> [is_dir |-> TRUE, versions |-> {<<"v", "1">>, <<"a">>},
                     manifests |-> {<<"v", "1">>, <<"a">>}]] }

CompileInit ==
    /\ entry = "compile"
    /\ pc = "load_dependencies"
    /\ res = None
    /\ log = <<>>
    /\ err_text = <<>>
    /\ \E t \in {e \in ToolEnvs : e.target_is_dir \/ e.bins_on_path # {}} :
        /\ manifest = t.manifest
        /\ target_is_dir = t.target_is_dir
        /\ bins_on_path = t.bins_on_path
    /\ frame = NoFrame
    /\ \E d \in CompileDepEnvs :
        /\ dependencies = d.dependencies
        /\ packages = d.packages
    /\ sources = ManifestPlain
    /\ known_deps = {DepName}
    /\ cache_dirs = {}
    /\ cache_files = OldCache({}, {})
    /\ dep_idx = 1
    /\ run = 1
    /\ contract_filepaths \in SeqsUpTo(CandidatePaths, MaxFiles)
    /\ source_text \in [CandidatePaths -> Texts]
    /\ \A p \in CandidatePaths \ Range(contract_filepaths) : source_text[p] = TextNone
    /\ paths = <<>>
    /\ idx = 1
    /\ contract_types = <<>>
    /\ \E stale \in {{}, {"ir", "casm"}} :
        /\ files = StaleFiles(stale)
        /\ out_dirs = IF stale = {} THEN {} ELSE {"starknet", "casm"}
    /\ fs0 = Filesystem

Next ==
    \/ load_dependencies
    \/ compile_filter
    \/ starknet_compile_attempt
    \/ starknet_compile_retry
    \/ compile_check_ir
    \/ starknet_sierra_compile
    \/ compile_assemble

Spec == CompileInit /\ [][Next]_vars

\* ------------------------------------------------------------ the claims

\* What a stderr text holds, read off its tokens.
HasPair(e, first, second) ==
    \E i \in 1..Len(e) : i < Len(e) /\ e[i] = first /\ e[i + 1] = second
SaysCompilationFailed(e) == HasPair(e, ErrorMarker, CompilationFailed)
SaysPermissionDenied(e) == \E i \in 1..Len(e) : e[i] = PermissionDenied
SaysContractNotFound(e) == HasPair(e, ErrorMarker, ContractNotFound)
SaysError(e) == \E i \in 1..Len(e) : e[i] = ErrorMarker
OnlyGeneric(e) ==
    /\ SaysError(e)
    /\ ~SaysCompilationFailed(e)
    /\ ~SaysPermissionDenied(e)
    /\ ~SaysContractNotFound(e)

InvokerDone == entry = "_compile" /\ pc = "done"

\* C3: _compile classifies stderr by the first matching rule, in the order
\* "Error: Compilation failed." (CompilerError with the full stderr), "Permission
\* denied (os error 13)" (CompilerBrokenError), "Error: Contract not found."
\* (ContractNotFoundError), "Error: " (CompilerError); a stderr that matches none,
\* and an empty one, returns (stdout, stderr).
C3_FirstMatchingRuleWins ==
    InvokerDone =>
        /\ SaysCompilationFailed(err_text) =>
              /\ res.kind = "CompilerError"
              /\ res.msg = <<"Failed to compile contract. Full output:\n">>
                           \o err_text \o <<".">>
        /\ (~SaysCompilationFailed(err_text) /\ SaysPermissionDenied(err_text)) =>
              res.kind = "CompilerBrokenError"
        /\ (/\ ~SaysCompilationFailed(err_text)
            /\ ~SaysPermissionDenied(err_text)
            /\ SaysContractNotFound(err_text)) =>
              res.kind = "ContractNotFoundError"
        /\ OnlyGeneric(err_text) =>
              /\ res.kind = "CompilerError"
              /\ res.msg # <<"Failed to compile contract. Full output:\n">>
                           \o err_text \o <<".">>
        /\ ~SaysError(err_text) /\ ~SaysPermissionDenied(err_text) =>
              /\ res.kind = "return"
              /\ res.err = err_text
        /\ err_text = <<>> => res.kind = "return"

\* A stderr that matches rules 2, 3 and 4 at once was classified by rule 2.
C3_Witness ==
    /\ InvokerDone
    /\ SaysPermissionDenied(err_text)
    /\ SaysContractNotFound(err_text)
    /\ ~SaysCompilationFailed(err_text)
    /\ res.kind = "CompilerBrokenError"

MarkerAt(e) == {i \in 1..Len(e) : e[i] = ErrorMarker}
Least(S) == CHOOSE i \in S : \A j \in S : i <= j
Greatest(S) == CHOOSE i \in S : \A j \in S : j <= i

\* s without the whitespace at its two ends
Trimmed(s) ==
    LET solid == {i \in 1..Len(s) : s[i] \notin Whitespace}
    IN  IF solid = {} THEN <<>> ELSE SubSeq(s, Least(solid), Greatest(solid))

AfterLastMarker(e) == SubSeq(e, Greatest(MarkerAt(e)) + 1, Len(e))

BetweenFirstTwoMarkers(e) ==
    LET first == Least(MarkerAt(e))
        later == {i \in MarkerAt(e) : i > first}
    IN  SubSeq(e, first + 1, IF later = {} THEN Len(e) ELSE Least(later) - 1)

\* C4 as stated: under the generic rule the message is the text after the last
\* "Error: " marker, trimmed.
C4_MessageAfterLastMarker ==
    (InvokerDone /\ OnlyGeneric(err_text)) =>
        res.msg = Trimmed(AfterLastMarker(err_text))

\* C4 as amended: under the generic rule the message is the text between the first
\* "Error: " marker and the next one (the end of stderr when there is no other),
\* trimmed.
C4_MessageBetweenFirstTwoMarkers ==
    (InvokerDone /\ OnlyGeneric(err_text)) =>
        /\ res.kind = "CompilerError"
        /\ res.msg = Trimmed(BetweenFirstTwoMarkers(err_text))

\* A generic stderr with two markers, each followed by text.
C4_Witness ==
    /\ InvokerDone
    /\ OnlyGeneric(err_text)
    /\ Cardinality(MarkerAt(err_text)) = 2
    /\ res.msg # <<>>
    /\ Trimmed(AfterLastMarker(err_text)) # <<>>
    /\ res.msg # Trimmed(AfterLastMarker(err_text))

IsSpawn(e) == e.op = "spawn"
Spawns == SelectSeq(log, IsSpawn)
Corrupted(e) == e.op = "spawn" /\ e.ended = "CompilerBrokenError"
RetryPossible == manifest # <<>> /\ fs0.target_is_dir

\* C1: stage A retries a CompilerCorrupted first attempt only when a manifest is
\* configured and <manifest parent>/target is a directory; it then removes that
\* directory and spawns the same argument list once more, and whatever the second
\* attempt raises leaves the call.  Otherwise the first attempt's error leaves the
\* call and no second child process is spawned.
C1_RetryOnceAfterCleanup ==
    entry = "starknet_compile" =>
        /\ Len(Spawns) <= 2
        /\ \A k \in 1..Len(log) : log[k].op = "rmtree" => k = 2
        /\ Len(log) >= 2 =>
              /\ RetryPossible
              /\ Corrupted(log[1])
              /\ log[2].op = "rmtree"
              /\ ~target_is_dir
        /\ Len(log) = 3 =>
              /\ IsSpawn(log[3])
              /\ log[3].args = log[1].args
        /\ Len(log) <= 3
        /\ pc = "retry" <=> Len(log) = 2
        /\ (Len(log) >= 1 /\ Corrupted(log[1]) /\ RetryPossible) => Len(log) >= 2
        /\ (pc = "done" /\ Len(log) = 1 /\ Corrupted(log[1])) =>
              /\ ~RetryPossible
              /\ res = CompilerBrokenError
              /\ target_is_dir = fs0.target_is_dir
        /\ (pc = "done" /\ Len(log) = 3 /\ Corrupted(log[3])) =>
              res = CompilerBrokenError

\* The retry was made and was itself CompilerCorrupted.
C1_Witness ==
    /\ entry = "starknet_compile"
    /\ pc = "done"
    /\ Len(log) = 3
    /\ Corrupted(log[3])
    /\ res = CompilerBrokenError

\* C2: whenever a child process of stage A, the first or the retry, ended as
\* ContractNotFound, what leaves starknet_compile is a ContractNotFoundError whose
\* message names in_path.
C2_NotFoundNamesThePath ==
    (/\ entry = "starknet_compile"
     /\ pc = "done"
     /\ \E k \in 1..Len(log) : IsSpawn(log[k]) /\ log[k].ended = "ContractNotFoundError")
    => /\ res.kind = "ContractNotFoundError"
       /\ res.msg = <<"Contract '">> \o frame.in_path \o <<"' not found.">>

DepsRunning == entry = "load_dependencies"
NoVersionGiven(item) == \A i \in 1..Len(item) : item[i] # At
\* The package folder holds no version subdirectory, or two or more.
NotOneVersion == packages.is_dir /\ Cardinality(packages.versions) # 1
\* The loop is about to process dependencies[dep_idx].
AtItem == pc = "load_dependencies" /\ dep_idx <= Len(dependencies)

\* C6: a dependency "name" without a version whose package folder holds exactly
\* one subdirectory d is resolved to d as it is named: the manifest
\* packageFolder/d/name.json is read and its sources are written under
\* .cache/name/d, also when d begins with a digit.
C6_SingleSubdirectoryUsedUnchanged ==
    \A d \in DirNames :
        (/\ DepsRunning
         /\ run = 1
         /\ pc = "done"
         /\ dependencies = <<<<DepName>>>>
         /\ packages.is_dir
         /\ packages.versions = {d}
         /\ d \in packages.manifests
         /\ DepName \in known_deps)
        => /\ res.kind = "return"
           /\ \A j \in 1..Len(sources) :
                 Truthy(sources[j].content) =>
                     cache_files[<<d, Suffix(sources[j].id)>>].exists

\* C7 as stated: an item, with or without "@version", whose package folder holds 0
\* or at least 2 version subdirectories raises ConfigError and writes no cache file.
C7_EveryItemNeedsOneVersion ==
    [][(DepsRunning /\ AtItem /\ NotOneVersion)
       => /\ pc' = "done"
          /\ res'.kind = "ConfigError"
          /\ cache_files' = cache_files
          /\ cache_dirs' = cache_dirs]_vars

\* C7 as amended: an item without "@version" whose package folder is a directory
\* holding 0 or at least 2 version subdirectories raises ConfigError and writes no
\* cache file.
C7_VersionlessItemNeedsOneVersion ==
    [][(DepsRunning /\ AtItem /\ NotOneVersion /\ NoVersionGiven(dependencies[dep_idx]))
       => /\ pc' = "done"
          /\ res'.kind = "ConfigError"
          /\ cache_files' = cache_files
          /\ cache_dirs' = cache_dirs]_vars

\* A versionless item, reached after an item with a version was written to the
\* cache, raised ConfigError on a package folder with two subdirectories.
C7_Witness ==
    /\ DepsRunning
    /\ pc = "done"
    /\ dep_idx = 2
    /\ Len(dependencies) = 2
    /\ NoVersionGiven(dependencies[2])
    /\ Cardinality(packages.versions) = 2
    /\ res.kind = "ConfigError"
    /\ cache_files # fs0.cache_files

\* The first entry of the manifest with content for destination p, or 0.
FirstWithContent(p) ==
    LET with == {j \in 1..Len(sources) :
                    Suffix(sources[j].id) = p /\ Truthy(sources[j].content)}
    IN  IF with = {} THEN 0 ELSE Least(with)

\* The items "name@version" the loop is past whose version names, as it is, a
\* subdirectory with a manifest of a configured dependency.
WrittenVersions ==
    {v \in DirNames :
        /\ v = PrefixV(v)
        /\ v \in packages.manifests
        /\ DepName \in known_deps
        /\ \E i \in 1..Len(dependencies) :
              i < dep_idx /\ dependencies[i] = <<DepName, At>> \o v}

\* C8: load_dependencies never overwrites a destination file; a file it creates
\* holds exactly the content of the manifest entry it was created for; an entry
\* without content creates nothing; an entry with content whose destination did
\* not exist has it afterwards; and a second run on the filesystem the first left
\* changes no cache file.
C8_NeverOverwritesAndIdempotent ==
    DepsRunning =>
        /\ \A k \in CacheKeys :
              fs0.cache_files[k].exists => cache_files[k] = fs0.cache_files[k]
        /\ \A k \in CacheKeys :
              (cache_files[k].exists /\ ~fs0.cache_files[k].exists) =>
                  /\ FirstWithContent(k[2]) # 0
                  /\ cache_files[k].text = sources[FirstWithContent(k[2])].content.text
        /\ \A v \in WrittenVersions : \A p \in DestPaths :
              FirstWithContent(p) # 0 => cache_files[<<v, p>>].exists
        /\ run = 2 => (cache_files = fs0.cache_files /\ cache_dirs = fs0.cache_dirs)

\* The second run is over; the first run created a file under one version and
\* left the file of an earlier run under another, whose manifest content differs.
C8_Witness ==
    /\ DepsRunning
    /\ run = 2
    /\ pc = "done"
    /\ res.kind = "return"
    /\ WrittenVersions = {<<"v", "1">>, <<"a">>}
    /\ sources = ManifestSameDestination
    /\ cache_files[<<<<"v", "1">>, <<"a", Sep, "b", CairoExt>>>>] = File(<<"OLD">>)
    /\ cache_files[<<<<"a">>, <<"a", Sep, "b", CairoExt>>>>] = File(<<"X">>)

Compiling == entry = "compile"
HoldsMarker(text) == \E i \in 1..Len(text) : text[i] \in ContractIds
\* The candidates that hold a contract marker, by position.
MarkedAt == {i \in 1..Len(contract_filepaths) : HoldsMarker(source_text[contract_filepaths[i]])}
\* The k-th of them.
Marked(k) ==
    contract_filepaths[CHOOSE i \in MarkedAt : Cardinality({j \in MarkedAt : j <= i}) = k]

IsStageA(e) == IsSpawn(e) /\ \E i \in 1..Len(e.args) : e.args[i] = <<STARKNET_COMPILE>>
IsStageB(e) == IsSpawn(e) /\ \E i \in 1..Len(e.args) : e.args[i] = <<STARKNET_SIERRA_COMPILE>>
Names(e, path) == \E i \in 1..Len(e.args) : e.args[i] = path

\* C5: every artifact compile holds comes from a candidate with a contract marker
\* whose IR file stage A wrote and whose bytecode file stage B wrote in this
\* compile invocation: neither bytecode is read from a file an earlier run left,
\* and no two artifacts share their output files.
C5_ArtifactsFromThisRun ==
    Compiling =>
        \A k \in 1..Len(contract_types) :
            LET ct == contract_types[k]
                ir == ct.deploymentBytecode.hex
                casm == ct.runtimeBytecode.hex
            IN  /\ HoldsMarker(source_text[ct.sourceId])
                /\ ir # 0
                /\ casm # 0
                /\ ir <= Len(log) /\ casm <= Len(log)
                /\ IsStageA(log[ir]) /\ log[ir].contract = k
                /\ IsStageB(log[casm]) /\ log[casm].contract = k
                /\ \A j \in 1..Len(contract_types) :
                      j # k => contract_types[j].contractName # ct.contractName

\* C9: when no candidate holds a contract marker, compile creates no output
\* directory and spawns no compiler process; dependency resolution has run to its
\* end before compile returns, and what compile returns is the empty list.  The
\* only other way out is an error raised by dependency resolution itself.
C9_NoMarkerNoCompilation ==
    (Compiling /\ MarkedAt = {}) =>
        /\ log = <<>>
        /\ out_dirs = fs0.out_dirs
        /\ files = fs0.files
        /\ pc \in {"load_dependencies", "done"}
        /\ pc = "done" =>
              \/ /\ res = Returns
                 /\ contract_types = <<>>
                 /\ dep_idx > Len(dependencies)
                 /\ \A v \in packages.manifests : \A p \in DestPaths :
                       (Len(dependencies) > 0 /\ FirstWithContent(p) # 0)
                           => cache_files[<<v, p>>].exists
              \/ /\ res.kind = "ConfigError"
                 /\ dep_idx <= Len(dependencies)

\* compile returned the empty list for candidates without a marker, after
\* dependency resolution wrote the cache.
C9_Witness ==
    /\ Compiling
    /\ MarkedAt = {}
    /\ contract_filepaths # <<>>
    /\ pc = "done"
    /\ res = Returns
    /\ cache_files # fs0.cache_files

\* C10: compile handles the candidates with a marker one at a time and in input
\* order: stage A of a contract ends, and its IR file is there, before its stage B
\* is spawned; both are over and its artifact is assembled before a process is
\* spawned for the next contract; an error ends the call with no process for a
\* later contract and no list returned; on success the list holds one artifact per
\* candidate with a marker, in candidate order.
C10_SequentialInCandidateOrder ==
    Compiling =>
        /\ \A i, j \in 1..Len(log) :
              i < j =>
                  /\ log[i].contract <= log[j].contract
                  /\ log[i].contract = log[j].contract => ~IsStageB(log[i])
        /\ \A j \in 1..Len(log) :
              /\ log[j].contract <= Len(paths)
              /\ IsStageA(log[j]) => Names(log[j], paths[log[j].contract])
              /\ IsStageB(log[j]) =>
                    \E i \in 1..(j - 1) :
                        /\ IsStageA(log[i])
                        /\ log[i].contract = log[j].contract
                        /\ log[i].ended = "return"
              /\ log[j].contract > 1 =>
                    /\ Len(contract_types) >= log[j].contract - 1
                    /\ \E i \in 1..(j - 1) :
                          /\ IsStageB(log[i])
                          /\ log[i].contract = log[j].contract - 1
                          /\ log[i].ended = "return"
        /\ pc = "sierra" =>
              LET ir == files[ProgramPath(ContractName(paths[idx]))]
              IN  /\ ir.exists
                  /\ ir.by # 0
                  /\ IsStageA(log[ir.by]) /\ log[ir.by].contract = idx
        /\ pc \in {"attempt", "retry", "check_ir", "sierra", "assemble"} =>
              Len(contract_types) = idx - 1
        /\ (pc = "done" /\ res.kind # "return") =>
              /\ \A j \in 1..Len(log) : log[j].contract <= idx
              /\ Len(contract_types) = idx - 1
        /\ (pc = "done" /\ res.kind = "return") =>
              /\ Len(contract_types) = Cardinality(MarkedAt)
              /\ \A k \in 1..Len(contract_types) : contract_types[k].sourceId = Marked(k)

\* compile returned two artifacts of different sources, the first after a retry
\* of stage A.
C10_Witness ==
    /\ Compiling
    /\ pc = "done"
    /\ res.kind = "return"
    /\ Len(contract_types) = 2
    /\ contract_types[1].sourceId # contract_types[2].sourceId
    /\ Len(log) >= 5
    /\ log[2].op = "rmtree"

====
